---- MODULE Spec2Model ----
(***************************************************************************)
(* Streaming playback of packages/client/src/index.ts:                     *)
(* ElevenLabsStreamingClient.generateAudio tees the synthesis stream into  *)
(* an accumulator and into playStreamingAudio, which queues the chunks and *)
(* forwards them to the stdin of an ffplay subprocess under a pause/resume *)
(* watermark policy.  Every handler of the source is one action; the       *)
(* events of the source stream, of the subprocess and of its stdin are the *)
(* environment.                                                            *)
(***************************************************************************)
EXTENDS Integers, Sequences, FiniteSets, TLC

(* ---------------------------- bounds ----------------------------------- *)
\* chunks the source delivers in one call (mixed sizes)
MaxChunks == 4
\* chunks the source delivers in one call when every chunk is small
MaxTail == 12
\* chunks the source delivers in one call in the fairness specification
MaxFair == 3
\* chunks the source delivers in one call in the single-chunk scenario
MaxScenario == 1
\* invocations of kill() in the teardown specification
MaxCleanups == 2
\* chunks the sources of two overlapping calls deliver together
MaxOverlap == 2
\* text chunks of one generateChunkedAudio call
MaxTextChunks == 4
\* validateVoiceId and list_voices requests the server receives
MaxRequests == 3
\* steps of the clock Date.now() reads
MaxTicks == 3
\* characters of the text given to TextChunker.chunkText
MaxTextLen == 6

(* --------------------------- constants --------------------------------- *)
bufferSize == 1024 * 512
minBufferSize == 1024 * 128
minQueueSlack == 10
\* a queue of more than minQueueSlack chunks behind the chunk being written
LongQueue == minQueueSlack + 1

\* lengths of the chunks the source may deliver
ChunkSizes == {1024 * 64, 1024 * 256, 1024 * 512}
TailSizes == {1024 * 8}
FairSizes == {1024 * 256}
ScenarioSizes == {1024 * 300}

\* exit codes the 'close' event may carry; "null" is the code of a process
\* ended by a signal, "-2" the one of a failed spawn (ENOENT)
\* the voice cache lives 5 minutes; the clock advances in steps of 2.5
CacheTtl == 5 * 60 * 1000
TickMs == 150 * 1000
\* the voice lists the voices API may return
VoiceLists == {"L1", "L2"}

\* the characters of a text: letters, the blank, a sentence terminator
Chars == {"a", "b", " ", "."}
\* values of maxDurationSeconds
Durations == {1, 2}

\* audioBuffer.length of the buffers client.generateAudio may return
AudioLengths == {1000, 3000}

ExitCodes == {"0", "1", "null"}
SpawnFailCode == "-2"

VARIABLES
  playAudio,       \* options.playAudio
  received,        \* chunks the source stream has delivered, in order
  chunks,          \* generateAudio: const chunks: Buffer[]
  pipeline,        \* await pipeline(nodeStream, passThrough)
  genpc,           \* position of generateAudio
  genResult,       \* what generateAudio returned or threw
  ffplayProcess,   \* "null" | "running" | "exited" | "closed"
  exitCode,        \* code of the exited subprocess
  killed,          \* ffplayProcess.killed
  killCalls,       \* invocations of ffplayProcess.kill('SIGTERM')
  stdinDestroyed,  \* ffplayProcess.stdin.destroyed
  written,         \* chunks handed to ffplayProcess.stdin.write, in order
  endCalls,        \* invocations of ffplayProcess.stdin.end()
  drainListeners,  \* pending stdin.once('drain') listeners
  timerPending,    \* the setTimeout(..., 100) has not fired yet
  buffer,          \* let buffer: Buffer[]
  totalBuffered,
  isPaused,
  isStreamEnded,
  isWriting,
  resolved,
  outcome,         \* state of the promise playStreamingAudio returned
  settleCalls,     \* invocations of resolve() / reject() of that promise
  firstTerminal,   \* first terminal event delivered to the session
  rejectCode,      \* the code in `ffplay exited with code ${code}`
  writes,          \* the stdin writes of the handler that ran last
  active,          \* the call whose closure the variables above are
  other,           \* the closure and subprocess of the overlapping call
  mcp              \* ElevenLabsStreamingMCPServer: fields and pending calls

vars == << playAudio, received, chunks, pipeline, genpc, genResult,
           ffplayProcess, exitCode, killed, killCalls, stdinDestroyed,
           written, endCalls, drainListeners, timerPending, buffer,
           totalBuffered, isPaused, isStreamEnded, isWriting, resolved,
           outcome, settleCalls, firstTerminal, rejectCode, writes,
           active, other, mcp >>

\* the variables of the client library
clientVars == << playAudio, received, chunks, pipeline, genpc, genResult,
                 ffplayProcess, exitCode, killed, killCalls, stdinDestroyed,
                 written, endCalls, drainListeners, timerPending, buffer,
                 totalBuffered, isPaused, isStreamEnded, isWriting, resolved,
                 outcome, settleCalls, firstTerminal, rejectCode, writes,
                 active, other >>

genVars == << chunks, pipeline, genpc, genResult >>
procVars == << ffplayProcess, exitCode, killed, killCalls, stdinDestroyed >>
promiseVars == << resolved, outcome, settleCalls, firstTerminal, rejectCode >>

(* ------------------------------ helpers -------------------------------- *)
RECURSIVE SumLen(_)
SumLen(q) == IF q = <<>> THEN 0 ELSE Head(q).len + SumLen(Tail(q))

IsPrefix(p, q) == Len(p) <= Len(q) /\ SubSeq(q, 1, Len(p)) = p

\* Buffer.concat(chunks): the bytes of the chunks one after the other
BufferConcat(cs) == [parts |-> cs, length |-> SumLen(cs)]

\* passThrough.on('data', (chunk) => { chunks.push(chunk) })
collectFront(cs, chunk) == <<chunk>> \o cs

collect(cs, chunk) == Append(cs, chunk)

\* variant: playback is started whatever options.playAudio says
StartsPlaybackAlways == TRUE

\* if (playAudio) { playbackPromise = this.playStreamingAudio(passThrough) }
StartsPlayback == playAudio

\* the listeners of playStreamingAudio are registered (spawn returned)
Listening == StartsPlayback /\ ffplayProcess # "null"

(* --------------------------- the session ------------------------------- *)
\* the closure state of one playStreamingAudio call, as the handlers see it
Session ==
  [ buffer |-> buffer, totalBuffered |-> totalBuffered, isPaused |-> isPaused,
    isStreamEnded |-> isStreamEnded, isWriting |-> isWriting,
    written |-> written, endCalls |-> endCalls,
    drainListeners |-> drainListeners, writes |-> <<>> ]

Apply(s) ==
  \E v \in {s} :
    /\ buffer' = v.buffer
    /\ totalBuffered' = v.totalBuffered
    /\ isPaused' = v.isPaused
    /\ isStreamEnded' = v.isStreamEnded
    /\ isWriting' = v.isWriting
    /\ written' = v.written
    /\ endCalls' = v.endCalls
    /\ drainListeners' = v.drainListeners
    /\ writes' = v.writes

\* variant: a write that reports saturation leaves its chunk in the queue
WriteChunkRequeue(s, couldWrite) ==
  LET chunk == Head(s.buffer) IN
  [ s EXCEPT !.buffer = IF couldWrite THEN Tail(s.buffer) ELSE s.buffer,
             !.written = Append(s.written, chunk),
             !.totalBuffered = IF couldWrite THEN s.totalBuffered - chunk.len
                               ELSE s.totalBuffered,
             !.writes = Append(s.writes,
                 [ chunk |-> chunk, couldWrite |-> couldWrite,
                   pausedAtWrite |-> s.isPaused, ended |-> s.isStreamEnded,
                   total |-> s.totalBuffered - chunk.len,
                   queued |-> Len(s.buffer) - 1, pauseSet |-> FALSE ]) ]

\* variant: the counter is decremented after the saturation check, so a
\* saturated write leaves its bytes counted
WriteChunkCountAfterCheck(s, couldWrite) ==
  LET chunk == Head(s.buffer) IN
  [ s EXCEPT !.buffer = Tail(s.buffer),
             !.written = Append(s.written, chunk),
             !.totalBuffered = IF couldWrite THEN s.totalBuffered - chunk.len
                               ELSE s.totalBuffered,
             !.writes = Append(s.writes,
                 [ chunk |-> chunk, couldWrite |-> couldWrite,
                   pausedAtWrite |-> s.isPaused, ended |-> s.isStreamEnded,
                   total |-> s.totalBuffered - chunk.len,
                   queued |-> Len(s.buffer) - 1, pauseSet |-> FALSE ]) ]

\* const chunk = buffer.shift()!; stdin.write(chunk); totalBuffered -= chunk.length
WriteChunk(s, couldWrite) ==
  LET chunk == Head(s.buffer) IN
  [ s EXCEPT !.buffer = Tail(s.buffer),
             !.written = Append(s.written, chunk),
             !.totalBuffered = s.totalBuffered - chunk.len,
             !.writes = Append(s.writes,
                 [ chunk |-> chunk, couldWrite |-> couldWrite,
                   pausedAtWrite |-> s.isPaused, ended |-> s.isStreamEnded,
                   total |-> s.totalBuffered - chunk.len,
                   queued |-> Len(s.buffer) - 1, pauseSet |-> FALSE ]) ]

\* variant: the low-buffer check compares with bufferSize
LowBufferPauseAtHigh(s) ==
  IF s.totalBuffered < bufferSize /\ ~s.isStreamEnded
     /\ Len(s.buffer) < minQueueSlack
  THEN [ s EXCEPT !.isPaused = TRUE,
                  !.writes[Len(s.writes)].pauseSet = TRUE ]
  ELSE s

\* variant: the low-buffer check does not look at the queue length
LowBufferPauseAnyQueue(s) ==
  IF s.totalBuffered < minBufferSize /\ ~s.isStreamEnded
  THEN [ s EXCEPT !.isPaused = TRUE,
                  !.writes[Len(s.writes)].pauseSet = TRUE ]
  ELSE s

\* variant: the low-buffer check does not look at isStreamEnded
LowBufferPauseAfterEnd(s) ==
  IF s.totalBuffered < minBufferSize /\ Len(s.buffer) < minQueueSlack
  THEN [ s EXCEPT !.isPaused = TRUE,
                  !.writes[Len(s.writes)].pauseSet = TRUE ]
  ELSE s

\* if (totalBuffered < minBufferSize && !isStreamEnded && buffer.length < 10)
LowBufferPause(s) ==
  IF s.totalBuffered < minBufferSize /\ ~s.isStreamEnded
     /\ Len(s.buffer) < minQueueSlack
  THEN [ s EXCEPT !.isPaused = TRUE,
                  !.writes[Len(s.writes)].pauseSet = TRUE ]
  ELSE s

\* variant: stdin is closed whenever the loop leaves the queue empty
CloseStdinOnEmpty(s) ==
  LET t == [ s EXCEPT !.isWriting = FALSE ] IN
  IF t.buffer = <<>> /\ ~stdinDestroyed
  THEN [ t EXCEPT !.endCalls = t.endCalls + 1 ]
  ELSE t

\* isWriting = false; if stream ended and buffer is empty, close ffplay stdin
CloseStdin(s) ==
  LET t == [ s EXCEPT !.isWriting = FALSE ] IN
  IF t.isStreamEnded /\ t.buffer = <<>> /\ ~stdinDestroyed
  THEN [ t EXCEPT !.endCalls = t.endCalls + 1 ]
  ELSE t

\* variant: a saturated write made after the source ended also ends stdin
AwaitDrainEnding(s) ==
  [ s EXCEPT !.drainListeners = s.drainListeners + 1,
             !.endCalls = IF s.isStreamEnded THEN s.endCalls + 1
                          ELSE s.endCalls ]

\* ffplayProcess.stdin.once('drain', ...); return
AwaitDrain(s) == [ s EXCEPT !.drainListeners = s.drainListeners + 1 ]

\* variant: the loop runs while the queue is not empty, paused or not
RECURSIVE WriteLoopIgnorePause(_, _)
WriteLoopIgnorePause(s, sat) ==
  IF s.buffer # <<>>
  THEN LET w == WriteChunk(s, sat # 1) IN
       IF sat = 1
       THEN AwaitDrain(w)
       ELSE WriteLoopIgnorePause(LowBufferPause(w),
                                 IF sat = 0 THEN 0 ELSE sat - 1)
  ELSE CloseStdin(s)

\* the while loop of writeToFfplay; the sat-th write of this run reports
\* saturation (sat = 0: none does)
RECURSIVE WriteLoop(_, _)
WriteLoop(s, sat) ==
  IF s.buffer # <<>> /\ ~s.isPaused
  THEN LET w == WriteChunk(s, sat # 1) IN
       IF sat = 1
       THEN AwaitDrain(w)
       ELSE WriteLoop(LowBufferPause(w), IF sat = 0 THEN 0 ELSE sat - 1)
  ELSE CloseStdin(s)

\* variant: writeToFfplay does not look at stdin.destroyed
writeToFfplayIntoDestroyed(s, sat) ==
  IF s.isWriting \/ ffplayProcess = "null"
  THEN s
  ELSE WriteLoop([ s EXCEPT !.isWriting = TRUE ], sat)

\* variant: writeToFfplay does not look at isWriting
writeToFfplayReentrant(s, sat) ==
  IF ffplayProcess = "null" \/ stdinDestroyed
  THEN s
  ELSE WriteLoop([ s EXCEPT !.isWriting = TRUE ], sat)

\* if (isWriting || !ffplayProcess || ... stdin.destroyed) return;
\* isWriting = true; while ...
writeToFfplay(s, sat) ==
  IF s.isWriting \/ ffplayProcess = "null" \/ stdinDestroyed
  THEN s
  ELSE WriteLoop([ s EXCEPT !.isWriting = TRUE ], sat)

\* variant: a paused session resumes at minBufferSize
onDataResumeLow(s, chunk, sat) ==
  LET a == [ s EXCEPT !.buffer = Append(s.buffer, chunk),
                      !.totalBuffered = s.totalBuffered + chunk.len ]
      b == IF a.isPaused /\ a.totalBuffered >= minBufferSize
           THEN [ a EXCEPT !.isPaused = FALSE ] ELSE a
  IN IF ~b.isPaused THEN writeToFfplay(b, sat) ELSE b

\* variant: the data handler only enqueues; the writer starts on the timer
onDataEnqueueOnly(s, chunk, sat) ==
  LET a == [ s EXCEPT !.buffer = Append(s.buffer, chunk),
                      !.totalBuffered = s.totalBuffered + chunk.len ]
  IN IF a.isPaused /\ a.totalBuffered >= bufferSize
     THEN [ a EXCEPT !.isPaused = FALSE ] ELSE a

\* variant: a paused session resumes only above bufferSize
onDataResumeAbove(s, chunk, sat) ==
  LET a == [ s EXCEPT !.buffer = Append(s.buffer, chunk),
                      !.totalBuffered = s.totalBuffered + chunk.len ]
      b == IF a.isPaused /\ a.totalBuffered > bufferSize
           THEN [ a EXCEPT !.isPaused = FALSE ] ELSE a
  IN IF ~b.isPaused THEN writeToFfplay(b, sat) ELSE b

\* audioStream.on('data', ...)
onData(s, chunk, sat) ==
  LET a == [ s EXCEPT !.buffer = Append(s.buffer, chunk),
                      !.totalBuffered = s.totalBuffered + chunk.len ]
      b == IF a.isPaused /\ a.totalBuffered >= bufferSize
           THEN [ a EXCEPT !.isPaused = FALSE ] ELSE a
  IN IF ~b.isPaused THEN writeToFfplay(b, sat) ELSE b

\* variant: the end handler leaves isPaused as it is
onEndKeepPause(s, sat) ==
  writeToFfplay([ s EXCEPT !.isStreamEnded = TRUE ], sat)

\* audioStream.on('end', ...)
onEnd(s, sat) ==
  writeToFfplay([ s EXCEPT !.isStreamEnded = TRUE, !.isPaused = FALSE ], sat)

\* the callback of stdin.once('drain', ...)
onDrain(s, sat) == writeToFfplay([ s EXCEPT !.isWriting = FALSE ], sat)

\* the callback of setTimeout(..., 100)
onTimer(s, sat) == IF s.totalBuffered > 0 THEN writeToFfplay(s, sat) ELSE s

\* which write of a handler run may report saturation
Saturation == 0 .. (Len(buffer) + 1)

(* -------------------------- the promise -------------------------------- *)
\* variant: the handlers settle the promise without looking at `resolved`
SettleAlways(result, event) ==
  /\ firstTerminal' = IF firstTerminal = "none" THEN event ELSE firstTerminal
  /\ resolved' = TRUE
  /\ settleCalls' = settleCalls + 1
  /\ outcome' = IF outcome = "pending" THEN result ELSE outcome
  /\ rejectCode' = IF outcome = "pending" /\ result = "rejected:exit"
                   THEN exitCode ELSE rejectCode

\* if (!resolved) { resolved = true; resolve() / reject(...) }
SettleOnce(result, event) ==
  /\ firstTerminal' = IF firstTerminal = "none" THEN event ELSE firstTerminal
  /\ IF ~resolved
     THEN /\ resolved' = TRUE
          /\ settleCalls' = settleCalls + 1
          /\ outcome' = IF outcome = "pending" THEN result ELSE outcome
          /\ rejectCode' = IF outcome = "pending" /\ result = "rejected:exit"
                           THEN exitCode ELSE rejectCode
     ELSE UNCHANGED << resolved, settleCalls, outcome, rejectCode >>

\* variant: cleanup signals the subprocess without looking at `killed`
cleanupUnguarded ==
  IF ffplayProcess # "null"
  THEN /\ killCalls' = killCalls + 1
       /\ killed' = (ffplayProcess = "running")
  ELSE UNCHANGED << killCalls, killed >>

\* const cleanup = () => { if (ffplayProcess && !ffplayProcess.killed) kill }
cleanup ==
  IF ffplayProcess # "null" /\ ~killed
  THEN /\ killCalls' = killCalls + 1
       /\ killed' = (ffplayProcess = "running")
  ELSE UNCHANGED << killCalls, killed >>

\* variant: only exit code 0 counts as success
CloseResultZeroOnly(code) ==
  IF code = "0" THEN "resolved" ELSE "rejected:exit"

\* if (code === 0 || code === null) resolve() else reject(...)
CloseResult(code) ==
  IF code = "0" \/ code = "null" THEN "resolved" ELSE "rejected:exit"

(* ----------------------------- TextChunker ----------------------------- *)
\* a text is the sequence of its characters
IsSpace(c) == c = " "
IsTerminator(c) == c \in {".", "!", "?"}

\* the first index from i on whose character is in the class (terminator
\* or not, blank or not) asked for, Len(s) + 1 if there is none
NextTerminator(s, i, wanted) ==
  LET stops == { n \in i .. Len(s) : IsTerminator(s[n]) = wanted }
  IN IF stops = {} THEN Len(s) + 1
     ELSE CHOOSE n \in stops : \A k \in stops : n <= k

NextSpace(s, i, wanted) ==
  LET stops == { n \in i .. Len(s) : IsSpace(s[n]) = wanted }
  IN IF stops = {} THEN Len(s) + 1
     ELSE CHOOSE n \in stops : \A k \in stops : n <= k

\* String.prototype.trim
Trim(s) ==
  LET first == NextSpace(s, 1, FALSE)
      kept == { n \in 1 .. Len(s) : ~IsSpace(s[n]) }
  IN IF kept = {} THEN <<>>
     ELSE SubSeq(s, first, CHOOSE n \in kept : \A k \in kept : k <= n)

\* s.split(/\s+/): the pieces between the runs of blanks, the empty pieces
\* before a leading and after a trailing run included
RECURSIVE SplitFrom(_, _, _, _)
SplitFrom(s, i, piece, pieces) ==
  IF i > Len(s) THEN Append(pieces, piece)
  ELSE IF IsSpace(s[i])
       THEN SplitFrom(s, NextSpace(s, i, FALSE), <<>>, Append(pieces, piece))
       ELSE SplitFrom(s, i + 1, Append(piece, s[i]), pieces)

Split(s) == SplitFrom(s, 1, <<>>, <<>>)

\* words.join(' ')
RECURSIVE Join(_)
Join(words) ==
  IF words = <<>> THEN <<>>
  ELSE IF Len(words) = 1 THEN words[1]
  ELSE words[1] \o << " " >> \o Join(Tail(words))

\* text.trim().split(/\s+/).length
WordCount(s) == Len(Split(Trim(s)))

\* wordCount / 2.5 seconds, in fifths of a second
estimateAudioDuration(s) == 2 * WordCount(s)

\* text.match(/[^\.!?]+[\.!?]+/g): from i on, each longest run of
\* non-terminators followed by its longest run of terminators
RECURSIVE MatchFrom(_, _, _)
MatchFrom(s, i, found) ==
  IF i > Len(s) THEN found
  ELSE IF IsTerminator(s[i]) THEN MatchFrom(s, i + 1, found)
  ELSE LET j == NextTerminator(s, i, TRUE) IN
       IF j > Len(s) THEN found
       ELSE LET k == NextTerminator(s, j, FALSE) IN
            MatchFrom(s, k, Append(found, SubSeq(s, i, k - 1)))

\* text.match(...) || [text]
Sentences(s) ==
  LET found == MatchFrom(s, 1, <<>>) IN
  IF found = <<>> THEN << s >> ELSE found

\* the for loop of chunkBySentences over the sentences left
RECURSIVE SentenceLoop(_, _, _, _, _)
SentenceLoop(sentences, maxWordsPerChunk, out, currentChunk, currentWordCount) ==
  IF sentences = <<>>
  THEN IF Trim(currentChunk) # <<>> THEN Append(out, Trim(currentChunk))
       ELSE out
  ELSE LET sentence == Head(sentences)
           sentenceWords == WordCount(sentence)
       IN IF currentWordCount + sentenceWords > maxWordsPerChunk
             /\ currentChunk # <<>>
          THEN SentenceLoop(Tail(sentences), maxWordsPerChunk,
                            Append(out, Trim(currentChunk)),
                            sentence, sentenceWords)
          ELSE SentenceLoop(Tail(sentences), maxWordsPerChunk, out,
                            (IF currentChunk # <<>>
                             THEN currentChunk \o << " " >> ELSE <<>>)
                              \o sentence,
                            currentWordCount + sentenceWords)

chunkBySentences(s, maxWordsPerChunk) ==
  SelectSeq(SentenceLoop(Sentences(s), maxWordsPerChunk, <<>>, <<>>, 0),
            LAMBDA chunk : Len(chunk) > 0)

\* the for loop of chunkByWords from the word after the first i
RECURSIVE WordLoop(_, _, _, _)
WordLoop(words, i, maxWordsPerChunk, out) ==
  IF i >= Len(words) THEN out
  ELSE LET last == IF i + maxWordsPerChunk < Len(words)
                   THEN i + maxWordsPerChunk ELSE Len(words)
       IN WordLoop(words, i + maxWordsPerChunk, maxWordsPerChunk,
                   Append(out, Join(SubSeq(words, i + 1, last))))

chunkByWords(s, maxWordsPerChunk) ==
  WordLoop(Split(Trim(s)), 0, maxWordsPerChunk, <<>>)

\* TextChunker.chunkText; Math.floor(maxDurationSeconds * 2.5) words
chunkText(s, maxDurationSeconds, bySentences) ==
  IF estimateAudioDuration(s) <= 5 * maxDurationSeconds
  THEN << s >>
  ELSE LET maxWordsPerChunk == (5 * maxDurationSeconds) \div 2 IN
       IF bySentences THEN chunkBySentences(s, maxWordsPerChunk)
       ELSE chunkByWords(s, maxWordsPerChunk)

(* --------------------------- the MCP server ---------------------------- *)
\* the server before any tool call
McpIdle ==
  [ chunkedPc |-> "idle",    \* position of generateChunkedAudio
    chunksLength |-> 0,      \* chunks.length
    i |-> 0,                 \* the loop index, counted from 1
    errors |-> <<>>,         \* the chunks whose message was pushed to errors
    totalBytes |-> 0,
    callState |-> <<>>,      \* the client.generateAudio call of each chunk
    callBytes |-> <<>>,      \* audioBuffer.length each call returned
    result |-> [ kind |-> "pending" ],
    cachedVoices |-> "null",
    voiceCacheExpiry |-> 0,
    clock |-> TickMs,        \* what Date.now() returns
    validatePc |-> "idle",   \* position of a validateVoiceId call
    validateNow |-> 0,       \* its const now
    listPc |-> "idle",       \* position of a listVoices call
    listNow |-> 0,           \* its const now
    apiCalls |-> 0,          \* invocations of this.client.listVoices()
    answers |-> <<>>,        \* the voice list each request answered from
    text |-> <<>>,           \* chunkText: text, as its characters
    maxDurationSeconds |-> 10,
    chunkBySentences |-> TRUE,
    textChunked |-> FALSE,   \* chunkText has returned
    textChunks |-> <<>> ]    \* what chunkText returned

\* variant: the call for the next chunk is issued together with this one
StartCallAhead(m, k) ==
  [ m EXCEPT !.i = k,
             !.callState = [ j \in 1 .. m.chunksLength |->
                               IF j = k \/ (j = k + 1 /\ @[j] = "idle")
                               THEN "active" ELSE @[j] ],
             !.chunkedPc = "awaitCall" ]

\* const audioBuffer = await this.client.generateAudio({text: chunk, ...})
StartCall(m, k) ==
  [ m EXCEPT !.i = k, !.callState[k] = "active", !.chunkedPc = "awaitCall" ]

\* the statements after the loop: the completion result
ChunkedReturn(m) ==
  [ m EXCEPT !.chunkedPc = "returned",
             !.result = [ kind |-> "completed",
                          successfulChunks |-> m.chunksLength - Len(m.errors),
                          chunks |-> m.chunksLength,
                          totalBytes |-> m.totalBytes,
                          warnings |-> m.errors ] ]

\* i++ and the loop test: the next iteration runs up to its await
NextIteration(m) ==
  IF m.i < m.chunksLength THEN StartCall(m, m.i + 1) ELSE ChunkedReturn(m)

\* variant: the call gives up when half of the chunks have failed
TooManyFailuresAtHalf(m) == 2 * Len(m.errors) >= m.chunksLength

\* if (errors.length > chunks.length / 2)
TooManyFailures(m) == 2 * Len(m.errors) > m.chunksLength

(* ------------------------------- Init ---------------------------------- *)
\* the state when generateAudio reaches `await pipeline(...)`
\* the state of the call whose events are being delivered
Current ==
  [ received |-> received, chunks |-> chunks, pipeline |-> pipeline,
    genpc |-> genpc, genResult |-> genResult,
    ffplayProcess |-> ffplayProcess, exitCode |-> exitCode,
    killed |-> killed, killCalls |-> killCalls,
    stdinDestroyed |-> stdinDestroyed, written |-> written,
    endCalls |-> endCalls, drainListeners |-> drainListeners,
    timerPending |-> timerPending, buffer |-> buffer,
    totalBuffered |-> totalBuffered, isPaused |-> isPaused,
    isStreamEnded |-> isStreamEnded, isWriting |-> isWriting,
    resolved |-> resolved, outcome |-> outcome,
    settleCalls |-> settleCalls, firstTerminal |-> firstTerminal,
    rejectCode |-> rejectCode, writes |-> writes ]

\* a second generateAudio call with playback whose subprocess was spawned
\* and whose source has delivered nothing yet
OverlappingCall ==
  [ received |-> <<>>, chunks |-> <<>>, pipeline |-> "running",
    genpc |-> "awaitPipeline", genResult |-> [ kind |-> "pending" ],
    ffplayProcess |-> "running", exitCode |-> "none",
    killed |-> FALSE, killCalls |-> 0,
    stdinDestroyed |-> FALSE, written |-> <<>>,
    endCalls |-> 0, drainListeners |-> 0,
    timerPending |-> TRUE, buffer |-> <<>>,
    totalBuffered |-> 0, isPaused |-> FALSE,
    isStreamEnded |-> FALSE, isWriting |-> FALSE,
    resolved |-> FALSE, outcome |-> "pending",
    settleCalls |-> 0, firstTerminal |-> "none",
    rejectCode |-> "none", writes |-> <<>> ]

ClientInit ==
  /\ playAudio \in BOOLEAN
  /\ received = <<>>
  /\ chunks = <<>>
  /\ pipeline = "running"
  /\ genpc = "awaitPipeline"
  /\ genResult = [ kind |-> "pending" ]
  /\ ffplayProcess \in (IF StartsPlayback THEN {"running", "null"}
                                          ELSE {"null"})
  /\ exitCode = "none"
  /\ killed = FALSE
  /\ killCalls = 0
  /\ stdinDestroyed = FALSE
  /\ written = <<>>
  /\ endCalls = 0
  /\ drainListeners = 0
  /\ timerPending = (StartsPlayback /\ ffplayProcess = "running")
  /\ buffer = <<>>
  /\ totalBuffered = 0
  /\ isPaused = FALSE
  /\ isStreamEnded = FALSE
  /\ isWriting = FALSE
  \* spawn threw: the catch block rejected the promise
  /\ resolved = (StartsPlayback /\ ffplayProcess = "null")
  /\ outcome = IF StartsPlayback /\ ffplayProcess = "null"
               THEN "rejected:spawn" ELSE "pending"
  /\ settleCalls = IF StartsPlayback /\ ffplayProcess = "null" THEN 1 ELSE 0
  /\ firstTerminal = IF StartsPlayback /\ ffplayProcess = "null"
                     THEN "spawnThrow" ELSE "none"
  /\ rejectCode = "none"
  /\ writes = <<>>
  /\ active = 1
  /\ other = OverlappingCall

Init == ClientInit /\ mcp = McpIdle

(* ------------------------------ actions -------------------------------- *)
\* the source delivers a chunk: passThrough emits 'data' to the accumulator
\* (registered first) and to the session
DataArrives(sizes, max) ==
  /\ pipeline = "running"
  /\ Len(received) < max
  /\ \E len \in sizes, sat \in Saturation :
       LET chunk == [ id |-> Len(received) + 1, len |-> len ] IN
       /\ received' = Append(received, chunk)
       /\ chunks' = collect(chunks, chunk)
       /\ IF Listening
          THEN Apply(onData(Session, chunk, sat))
          ELSE UNCHANGED << buffer, totalBuffered, isPaused, isStreamEnded,
                            isWriting, written, endCalls, drainListeners,
                            writes >>
  /\ UNCHANGED << playAudio, active, other, mcp, pipeline, genpc, genResult, procVars,
                  timerPending, promiseVars >>

SourceData == DataArrives(ChunkSizes, MaxChunks)

\* a source of 8 KiB chunks whose chunks after the first LongQueue may
\* also be 256 KiB
WatermarkData ==
  DataArrives(IF Len(received) >= LongQueue THEN TailSizes \cup FairSizes
              ELSE TailSizes, MaxTail)

TailData == DataArrives(TailSizes, MaxTail)

FairData == DataArrives(FairSizes, MaxFair)

ScenarioData == DataArrives(ScenarioSizes, MaxScenario)

\* the source ends: passThrough emits 'end', the pipeline completes
\* the source of the first call delivers 256 KiB chunks, the source of the
\* second one 300 KiB chunks
OverlapSizes == IF active = 1 THEN FairSizes ELSE ScenarioSizes

OverlapData ==
  /\ Len(received) + Len(other.received) < MaxOverlap
  /\ DataArrives(OverlapSizes, MaxOverlap)

SourceEnd ==
  /\ pipeline = "running"
  /\ pipeline' = "done"
  /\ \E sat \in Saturation :
       IF Listening
       THEN Apply(onEnd(Session, sat))
       ELSE UNCHANGED << buffer, totalBuffered, isPaused, isStreamEnded,
                         isWriting, written, endCalls, drainListeners,
                         writes >>
  /\ UNCHANGED << playAudio, active, other, mcp, received, chunks, genpc, genResult, procVars,
                  timerPending, promiseVars >>

\* variant: the 'error' handler of the source calls cleanup only when it
\* rejects
SourceErrorKillIfUnsettled ==
  /\ pipeline = "running"
  /\ pipeline' = "failed"
  /\ IF Listening
     THEN /\ IF ~resolved THEN cleanup ELSE UNCHANGED << killCalls, killed >>
          /\ SettleOnce("rejected:source", "sourceError")
     ELSE UNCHANGED << killCalls, killed, promiseVars >>
  /\ writes' = <<>>
  /\ UNCHANGED << playAudio, active, other, mcp, received, chunks, genpc,
                  genResult, ffplayProcess, exitCode, stdinDestroyed,
                  written, endCalls, drainListeners, timerPending, buffer,
                  totalBuffered, isPaused, isStreamEnded, isWriting >>

\* the source fails: the pipeline destroys passThrough with the error, which
\* emits 'error', and the pipeline rejects
SourceError ==
  /\ pipeline = "running"
  /\ pipeline' = "failed"
  /\ IF Listening
     THEN /\ cleanup
          /\ SettleOnce("rejected:source", "sourceError")
     ELSE UNCHANGED << killCalls, killed, promiseVars >>
  /\ writes' = <<>>
  /\ UNCHANGED << playAudio, active, other, mcp, received, chunks, genpc, genResult,
                  ffplayProcess, exitCode, stdinDestroyed, written, endCalls,
                  drainListeners, timerPending, buffer, totalBuffered,
                  isPaused, isStreamEnded, isWriting >>

\* variant: generateAudio returns after the pipeline without awaiting the
\* playback promise
GenAfterPipelineNoAwait ==
  /\ genpc = "awaitPipeline"
  /\ pipeline = "done"
  /\ genpc' = "resolved"
  /\ genResult' = [ kind |-> "buffer", buffer |-> BufferConcat(chunks) ]
  /\ UNCHANGED << playAudio, active, other, mcp, received, chunks, pipeline, procVars, written,
                  endCalls, drainListeners, timerPending, buffer,
                  totalBuffered, isPaused, isStreamEnded, isWriting,
                  promiseVars, writes >>

\* generateAudio continues after `await pipeline(...)` completed
GenAfterPipeline ==
  /\ genpc = "awaitPipeline"
  /\ pipeline = "done"
  /\ IF StartsPlayback
     THEN /\ genpc' = "awaitPlayback"
          /\ UNCHANGED genResult
     ELSE /\ genpc' = "resolved"
          /\ genResult' = [ kind |-> "buffer", buffer |-> BufferConcat(chunks) ]
  /\ UNCHANGED << playAudio, active, other, mcp, received, chunks, pipeline, procVars, written,
                  endCalls, drainListeners, timerPending, buffer,
                  totalBuffered, isPaused, isStreamEnded, isWriting,
                  promiseVars, writes >>

\* variant: the pipeline catch swallows the error and goes on to return
\* what was accumulated
GenPipelineFailedSwallow ==
  /\ genpc = "awaitPipeline"
  /\ pipeline = "failed"
  /\ genpc' = "resolved"
  /\ genResult' = [ kind |-> "buffer", buffer |-> BufferConcat(chunks) ]
  /\ UNCHANGED << playAudio, active, other, mcp, received, chunks, pipeline, procVars, written,
                  endCalls, drainListeners, timerPending, buffer,
                  totalBuffered, isPaused, isStreamEnded, isWriting,
                  promiseVars, writes >>

\* catch (pipelineError) { passThrough.destroy(); throw pipelineError }
GenPipelineFailed ==
  /\ genpc = "awaitPipeline"
  /\ pipeline = "failed"
  /\ genpc' = "rejected"
  /\ genResult' = [ kind |-> "error", error |-> "rejected:source" ]
  /\ UNCHANGED << playAudio, active, other, mcp, received, chunks, pipeline, procVars, written,
                  endCalls, drainListeners, timerPending, buffer,
                  totalBuffered, isPaused, isStreamEnded, isWriting,
                  promiseVars, writes >>

\* variant: a rejected playback promise is caught and the buffer returned
GenAfterPlaybackSwallow ==
  /\ genpc = "awaitPlayback"
  /\ outcome # "pending"
  /\ genpc' = "resolved"
  /\ genResult' = [ kind |-> "buffer", buffer |-> BufferConcat(chunks) ]
  /\ UNCHANGED << playAudio, active, other, mcp, received, chunks, pipeline, procVars, written,
                  endCalls, drainListeners, timerPending, buffer,
                  totalBuffered, isPaused, isStreamEnded, isWriting,
                  promiseVars, writes >>

\* generateAudio continues after `await playbackPromise` settled
GenAfterPlayback ==
  /\ genpc = "awaitPlayback"
  /\ outcome # "pending"
  /\ IF outcome = "resolved"
     THEN /\ genpc' = "resolved"
          /\ genResult' = [ kind |-> "buffer", buffer |-> BufferConcat(chunks) ]
     ELSE /\ genpc' = "rejected"
          /\ genResult' = [ kind |-> "error", error |-> outcome ]
  /\ UNCHANGED << playAudio, active, other, mcp, received, chunks, pipeline, procVars, written,
                  endCalls, drainListeners, timerPending, buffer,
                  totalBuffered, isPaused, isStreamEnded, isWriting,
                  promiseVars, writes >>

\* the 100 ms start timer fires
Timer ==
  /\ timerPending
  /\ timerPending' = FALSE
  /\ \E sat \in Saturation : Apply(onTimer(Session, sat))
  /\ UNCHANGED << playAudio, active, other, mcp, received, genVars, procVars, promiseVars >>

\* stdin emits 'drain': every once-listener runs
Drain ==
  /\ drainListeners > 0
  /\ ~stdinDestroyed
  /\ \E sat \in Saturation :
       Apply(onDrain([ Session EXCEPT !.drainListeners = 0 ], sat))
  /\ UNCHANGED << playAudio, active, other, mcp, received, genVars, procVars, timerPending,
                  promiseVars >>

\* variant: the 'error' handler of the subprocess only logs
ProcErrorLogOnly ==
  /\ ffplayProcess = "running"
  /\ received = <<>> /\ pipeline = "running" /\ timerPending
  /\ ffplayProcess' = "exited"
  /\ exitCode' = SpawnFailCode
  /\ stdinDestroyed' = TRUE
  /\ firstTerminal' = IF firstTerminal = "none" THEN "procError"
                      ELSE firstTerminal
  /\ writes' = <<>>
  /\ UNCHANGED << playAudio, active, other, mcp, received, genVars, killed, killCalls, written,
                  endCalls, drainListeners, timerPending, buffer,
                  totalBuffered, isPaused, isStreamEnded, isWriting,
                  resolved, outcome, settleCalls, rejectCode >>

\* the subprocess could not be launched: 'error' is emitted before any
\* other event of the session, its stdin is destroyed
ProcError ==
  /\ ffplayProcess = "running"
  /\ received = <<>> /\ pipeline = "running" /\ timerPending
  /\ ffplayProcess' = "exited"
  /\ exitCode' = SpawnFailCode
  /\ stdinDestroyed' = TRUE
  /\ SettleOnce("rejected:spawn", "procError")
  /\ writes' = <<>>
  /\ UNCHANGED << playAudio, active, other, mcp, received, genVars, killed, killCalls, written,
                  endCalls, drainListeners, timerPending, buffer,
                  totalBuffered, isPaused, isStreamEnded, isWriting >>

\* the subprocess exits (by itself or by a signal): its stdin is destroyed
ProcExit ==
  /\ ffplayProcess = "running"
  /\ \E code \in ExitCodes : exitCode' = code
  /\ ffplayProcess' = "exited"
  /\ stdinDestroyed' = TRUE
  /\ writes' = <<>>
  /\ UNCHANGED << playAudio, active, other, mcp, received, genVars, killed, killCalls, written,
                  endCalls, drainListeners, timerPending, buffer,
                  totalBuffered, isPaused, isStreamEnded, isWriting,
                  promiseVars >>

\* ffplayProcess.on('close', ...)
ProcClose ==
  /\ ffplayProcess = "exited"
  /\ ffplayProcess' = "closed"
  /\ SettleOnce(CloseResult(exitCode), "close")
  /\ writes' = <<>>
  /\ UNCHANGED << playAudio, active, other, mcp, received, genVars, exitCode, killed, killCalls,
                  stdinDestroyed, written, endCalls, drainListeners,
                  timerPending, buffer, totalBuffered, isPaused,
                  isStreamEnded, isWriting >>

\* variant: the stdin 'error' handler kills the player and rejects
StdinErrorRejects ==
  /\ ffplayProcess = "running"
  /\ ~stdinDestroyed
  /\ written # <<>>
  /\ stdinDestroyed' = TRUE
  /\ writes' = <<>>
  /\ cleanup
  /\ SettleOnce("rejected:exit", "close")
  /\ UNCHANGED << playAudio, active, other, mcp, received, genVars, ffplayProcess,
                  exitCode, written, endCalls, drainListeners,
                  timerPending, buffer, totalBuffered, isPaused,
                  isStreamEnded, isWriting >>

\* ffplayProcess.stdin.on('error', ...): only logs; the stream is destroyed
StdinError ==
  /\ ffplayProcess = "running"
  /\ ~stdinDestroyed
  /\ written # <<>>
  /\ stdinDestroyed' = TRUE
  /\ writes' = <<>>
  /\ UNCHANGED << playAudio, active, other, mcp, received, genVars, ffplayProcess, exitCode,
                  killed, killCalls, written, endCalls, drainListeners,
                  timerPending, buffer, totalBuffered, isPaused,
                  isStreamEnded, isWriting, promiseVars >>

\* cleanup() invoked once more, at any point of the session
Teardown ==
  /\ killCalls < MaxCleanups
  /\ cleanup
  /\ UNCHANGED << playAudio, active, other, mcp, received, genVars, ffplayProcess, exitCode,
                  stdinDestroyed, written, endCalls, drainListeners,
                  timerPending, buffer, totalBuffered, isPaused,
                  isStreamEnded, isWriting, promiseVars, writes >>

(* ------------------------- playAudio(buffer) -------------------------- *)
\* playAudio is called with the buffer a generateAudio({playAudio: false})
\* returned; ffplayProcess, exitCode, stdinDestroyed, written, endCalls are
\* those of its subprocess, outcome and settleCalls those of its promise

\* variant: the null code counts as success, as in playStreamingAudio
PlayAudioCloseResultWithNull(code) ==
  IF code = "0" \/ code = "null" THEN "resolved" ELSE "rejected:exit"

\* if (code === 0) resolve() else reject(new Error(...))
PlayAudioCloseResult(code) ==
  IF code = "0" THEN "resolved" ELSE "rejected:exit"

\* resolve() / reject(...) of playAudio: no flag, the promise keeps its
\* first settlement
PlayAudioSettle(result, event) ==
  /\ firstTerminal' = IF firstTerminal = "none" THEN event ELSE firstTerminal
  /\ settleCalls' = settleCalls + 1
  /\ outcome' = IF outcome = "pending" THEN result ELSE outcome
  /\ rejectCode' = IF outcome = "pending" /\ result = "rejected:exit"
                   THEN exitCode ELSE rejectCode
  /\ UNCHANGED resolved

\* spawn('ffplay', ...); ffplay.stdin.write(audioBuffer); ffplay.stdin.end()
\* (or spawn throws inside the executor, which rejects the promise)
PlayAudioStart ==
  /\ ~playAudio
  /\ genpc = "resolved"
  /\ ffplayProcess = "null" /\ outcome = "pending"
  /\ \/ /\ ffplayProcess' = "running"
        /\ written' = genResult.buffer.parts
        /\ endCalls' = 1
        /\ UNCHANGED promiseVars
     \/ /\ PlayAudioSettle("rejected:spawn", "spawnThrow")
        /\ UNCHANGED << ffplayProcess, written, endCalls >>
  /\ UNCHANGED << playAudio, active, other, mcp, received, genVars, exitCode, killed, killCalls,
                  stdinDestroyed, drainListeners, timerPending, buffer,
                  totalBuffered, isPaused, isStreamEnded, isWriting, writes >>

\* ffplay.on('error', ...): the subprocess could not be launched
PlayAudioError ==
  /\ ~playAudio
  /\ ffplayProcess = "running"
  /\ ffplayProcess' = "exited"
  /\ exitCode' = SpawnFailCode
  /\ stdinDestroyed' = TRUE
  /\ PlayAudioSettle("rejected:spawn", "procError")
  /\ UNCHANGED << playAudio, active, other, mcp, received, genVars, killed, killCalls, written,
                  endCalls, drainListeners, timerPending, buffer,
                  totalBuffered, isPaused, isStreamEnded, isWriting, writes >>

\* ffplay.on('close', ...)
PlayAudioClose ==
  /\ ~playAudio
  /\ ffplayProcess = "exited"
  /\ ffplayProcess' = "closed"
  /\ PlayAudioSettle(PlayAudioCloseResult(exitCode), "close")
  /\ UNCHANGED << playAudio, active, other, mcp, received, genVars, exitCode, killed, killCalls,
                  stdinDestroyed, written, endCalls, drainListeners,
                  timerPending, buffer, totalBuffered, isPaused,
                  isStreamEnded, isWriting, writes >>

(* ------------------------- overlapping calls --------------------------- *)
\* variant: buffer and totalBuffered are declared outside the executor, one
\* queue for every call
SwitchSharedBuffer ==
  /\ playAudio
  /\ active' = 3 - active
  /\ other' = Current
  /\ \E v \in {other} :
       /\ received' = v.received /\ chunks' = v.chunks
       /\ pipeline' = v.pipeline /\ genpc' = v.genpc
       /\ genResult' = v.genResult
       /\ ffplayProcess' = v.ffplayProcess /\ exitCode' = v.exitCode
       /\ killed' = v.killed /\ killCalls' = v.killCalls
       /\ stdinDestroyed' = v.stdinDestroyed /\ written' = v.written
       /\ endCalls' = v.endCalls /\ drainListeners' = v.drainListeners
       /\ timerPending' = v.timerPending
       /\ isPaused' = v.isPaused
       /\ isStreamEnded' = v.isStreamEnded /\ isWriting' = v.isWriting
       /\ resolved' = v.resolved /\ outcome' = v.outcome
       /\ settleCalls' = v.settleCalls /\ firstTerminal' = v.firstTerminal
       /\ rejectCode' = v.rejectCode /\ writes' = v.writes
  /\ UNCHANGED << playAudio, mcp, buffer, totalBuffered >>

\* the next event belongs to the other call: its handlers close over the
\* variables their own playStreamingAudio call declared
Switch ==
  /\ playAudio
  /\ active' = 3 - active
  /\ other' = Current
  /\ \E v \in {other} :
       /\ received' = v.received /\ chunks' = v.chunks
       /\ pipeline' = v.pipeline /\ genpc' = v.genpc
       /\ genResult' = v.genResult
       /\ ffplayProcess' = v.ffplayProcess /\ exitCode' = v.exitCode
       /\ killed' = v.killed /\ killCalls' = v.killCalls
       /\ stdinDestroyed' = v.stdinDestroyed /\ written' = v.written
       /\ endCalls' = v.endCalls /\ drainListeners' = v.drainListeners
       /\ timerPending' = v.timerPending
       /\ buffer' = v.buffer /\ totalBuffered' = v.totalBuffered
       /\ isPaused' = v.isPaused
       /\ isStreamEnded' = v.isStreamEnded /\ isWriting' = v.isWriting
       /\ resolved' = v.resolved /\ outcome' = v.outcome
       /\ settleCalls' = v.settleCalls /\ firstTerminal' = v.firstTerminal
       /\ rejectCode' = v.rejectCode /\ writes' = v.writes
  /\ UNCHANGED << playAudio, mcp >>

(* ---------------------- MCP generateChunkedAudio ----------------------- *)
\* generateAudio found more than one chunk and calls generateChunkedAudio,
\* which runs up to the await of the first chunk's call
GenerateChunkedAudio ==
  /\ mcp.chunkedPc = "idle"
  /\ \E n \in 2 .. MaxTextChunks :
       mcp' = StartCall([ mcp EXCEPT
                            !.chunksLength = n,
                            !.callState = [ k \in 1 .. n |-> "idle" ],
                            !.callBytes = [ k \in 1 .. n |-> 0 ] ], 1)
  /\ UNCHANGED clientVars

\* the call of chunk i resolves: totalBytes += audioBuffer.length, then the
\* 500 ms delay unless it was the last chunk
ChunkResolves ==
  /\ mcp.chunkedPc = "awaitCall"
  /\ \E len \in AudioLengths :
       LET a == [ mcp EXCEPT !.callState[mcp.i] = "resolved",
                             !.callBytes[mcp.i] = len,
                             !.totalBytes = @ + len ]
       IN mcp' = IF a.i < a.chunksLength
                 THEN [ a EXCEPT !.chunkedPc = "delay" ]
                 ELSE NextIteration(a)
  /\ UNCHANGED clientVars

\* the 500 ms timer between two chunks fires
DelayElapsed ==
  /\ mcp.chunkedPc = "delay"
  /\ mcp' = NextIteration(mcp)
  /\ UNCHANGED clientVars

\* the call of chunk i rejects: the catch block records it and either
\* throws or goes on with the next chunk
ChunkRejects ==
  /\ mcp.chunkedPc = "awaitCall"
  /\ LET a == [ mcp EXCEPT !.callState[mcp.i] = "rejected",
                           !.errors = Append(@, mcp.i) ]
     IN mcp' = IF TooManyFailures(a)
               THEN [ a EXCEPT !.chunkedPc = "thrown",
                               !.result = [ kind |-> "error",
                                            message |-> "Too many chunk failures",
                                            errors |-> a.errors ] ]
               ELSE NextIteration(a)
  /\ UNCHANGED clientVars

(* -------------------------- MCP voice cache ---------------------------- *)
\* a request is answered from the given list
Answer(m, tool, list) ==
  [ m EXCEPT !.answers = Append(@, [ tool |-> tool, list |-> list,
                                     at |-> m.clock ]) ]

\* validateVoiceId up to its await, or to its return on a fresh cache
ValidateVoiceId ==
  /\ mcp.validatePc = "idle"
  /\ Len(mcp.answers) + (IF mcp.listPc = "fetching" THEN 1 ELSE 0)
       < MaxRequests
  /\ mcp' = IF mcp.cachedVoices = "null" \/ mcp.clock > mcp.voiceCacheExpiry
            THEN [ mcp EXCEPT !.validatePc = "fetching",
                              !.validateNow = mcp.clock,
                              !.apiCalls = @ + 1 ]
            ELSE Answer(mcp, "validateVoiceId", mcp.cachedVoices)
  /\ UNCHANGED clientVars

\* this.cachedVoices = await this.client.listVoices();
\* this.voiceCacheExpiry = now + 5 * 60 * 1000; then the lookup
ValidateFetched ==
  /\ mcp.validatePc = "fetching"
  /\ \E list \in VoiceLists :
       mcp' = Answer([ mcp EXCEPT !.validatePc = "idle",
                                  !.cachedVoices = list,
                                  !.voiceCacheExpiry = mcp.validateNow + CacheTtl ],
                     "validateVoiceId", list)
  /\ UNCHANGED clientVars

\* the voices API fails: validateVoiceId returns true without a list
ValidateFetchFails ==
  /\ mcp.validatePc = "fetching"
  /\ mcp' = Answer([ mcp EXCEPT !.validatePc = "idle" ],
                   "validateVoiceId", "none")
  /\ UNCHANGED clientVars

\* the list_voices tool up to its await, or to its return on a fresh cache
ListVoices ==
  /\ mcp.listPc = "idle"
  /\ Len(mcp.answers) + (IF mcp.validatePc = "fetching" THEN 1 ELSE 0)
       < MaxRequests
  /\ mcp' = IF mcp.cachedVoices # "null" /\ mcp.clock <= mcp.voiceCacheExpiry
            THEN Answer(mcp, "list_voices", mcp.cachedVoices)
            ELSE [ mcp EXCEPT !.listPc = "fetching",
                              !.listNow = mcp.clock,
                              !.apiCalls = @ + 1 ]
  /\ UNCHANGED clientVars

\* const voices = await this.client.listVoices(); the cache is updated
\* and voices returned
ListFetched ==
  /\ mcp.listPc = "fetching"
  /\ \E voices \in VoiceLists :
       mcp' = Answer([ mcp EXCEPT !.listPc = "idle",
                                  !.cachedVoices = voices,
                                  !.voiceCacheExpiry = mcp.listNow + CacheTtl ],
                     "list_voices", voices)
  /\ UNCHANGED clientVars

\* the voices API fails: list_voices throws
ListFetchFails ==
  /\ mcp.listPc = "fetching"
  /\ mcp' = Answer([ mcp EXCEPT !.listPc = "idle" ], "list_voices", "none")
  /\ UNCHANGED clientVars

\* time passes
Tick ==
  /\ mcp.clock < TickMs * (MaxTicks + 1)
  /\ mcp' = [ mcp EXCEPT !.clock = @ + TickMs ]
  /\ UNCHANGED clientVars

(* ------------------------- MCP text chunking --------------------------- *)
\* const chunks = TextChunker.chunkText(text, max_chunk_length,
\*                                      chunk_by_sentences)
ChunkText ==
  /\ ~mcp.textChunked
  /\ mcp' = [ mcp EXCEPT
               !.textChunked = TRUE,
               !.textChunks = chunkText(mcp.text, mcp.maxDurationSeconds,
                                        mcp.chunkBySentences) ]
  /\ UNCHANGED clientVars

Common ==
  \/ SourceEnd
  \/ SourceError
  \/ GenAfterPipeline
  \/ GenPipelineFailed
  \/ GenAfterPlayback
  \/ Timer
  \/ Drain
  \/ ProcError
  \/ ProcExit
  \/ ProcClose
  \/ StdinError

Next == SourceData \/ Common

Spec == Init /\ [][Next]_vars

SpecTail == Init /\ [][TailData \/ Common]_vars

\* the sink's drain event follows every saturated write while stdin is open
FairSpec == Init /\ [][FairData \/ Common]_vars /\ WF_vars(Drain)

\* one call whose source delivers a single 300 KB chunk
ScenarioSpec == Init /\ [][ScenarioData \/ Common]_vars

\* the player exits once its stdin is closed (ended or destroyed) or it was
\* signalled
PlayerExitsWhenDone ==
  /\ endCalls > 0 \/ stdinDestroyed \/ killed
  /\ ProcExit

\* the source ends or fails, saturated writes are followed by a drain
\* event, the player exits when done and closes, and the continuations of
\* generateAudio run
LiveSpec ==
  /\ Init /\ [][FairData \/ Common]_vars
  /\ WF_vars(SourceEnd \/ SourceError)
  /\ WF_vars(Drain)
  /\ WF_vars(PlayerExitsWhenDone)
  /\ WF_vars(ProcClose)
  /\ WF_vars(GenAfterPipeline)
  /\ WF_vars(GenPipelineFailed)
  /\ WF_vars(GenAfterPlayback)

\* a session whose cleanup may be invoked any number of times
CleanupSpec == Init /\ [][FairData \/ Common \/ Teardown]_vars

\* long queues of small chunks that end with chunks above the low watermark
WatermarkSpec == Init /\ [][WatermarkData \/ Common]_vars

\* generateAudio without playback, then playAudio on the returned buffer
PlayAudioInit == Init /\ ~playAudio

PlayAudioNext ==
  \/ SourceData \/ SourceEnd \/ SourceError
  \/ GenAfterPipeline \/ GenPipelineFailed
  \/ PlayAudioStart \/ PlayAudioError \/ ProcExit \/ PlayAudioClose

PlayAudioSpec == PlayAudioInit /\ [][PlayAudioNext]_vars

\* two generateAudio calls with playback whose events interleave
OverlapInit == Init /\ playAudio /\ ffplayProcess = "running"

\* the events of the two sessions; what generateAudio does after its
\* awaits touches no session state and is left to Spec
OverlapNext ==
  \/ OverlapData \/ SourceEnd \/ SourceError \/ Timer \/ Drain
  \/ ProcError \/ ProcExit \/ ProcClose \/ StdinError \/ Switch

OverlapSpec == OverlapInit /\ [][OverlapNext]_vars

\* the MCP server with no client call of its own in the model
McpInit == Init /\ playAudio /\ ffplayProcess = "running"

\* one generateChunkedAudio call of the MCP server
ChunkedNext ==
  GenerateChunkedAudio \/ ChunkResolves \/ DelayElapsed \/ ChunkRejects

ChunkedSpec == McpInit /\ [][ChunkedNext]_vars

\* validateVoiceId and list_voices requests of the MCP server, which may
\* overlap
VoiceCacheNext ==
  \/ ValidateVoiceId \/ ValidateFetched \/ ValidateFetchFails
  \/ ListVoices \/ ListFetched \/ ListFetchFails \/ Tick

VoiceCacheSpec == McpInit /\ [][VoiceCacheNext]_vars

\* the texts of at most MaxTextLen characters
Texts == UNION { [ 1 .. n -> Chars ] : n \in 0 .. MaxTextLen }

\* chunkText applied to every text, duration and mode
ChunkerInit ==
  /\ ClientInit /\ playAudio /\ ffplayProcess = "running"
  /\ mcp \in { [ McpIdle EXCEPT !.text = t, !.maxDurationSeconds = d,
                                !.chunkBySentences = b ] :
                 t \in Texts, d \in Durations, b \in BOOLEAN }

ChunkerSpec == ChunkerInit /\ [][ChunkText]_vars

(* ------------------------------ claims --------------------------------- *)
\* C1: the chunks written to the player's stdin are always a prefix of the
\* chunks received from the source, in arrival order, and once stdin.end()
\* has been invoked they are all the chunks received.
C1_WrittenIsPrefixOfReceived ==
  /\ IsPrefix(written, received)
  /\ endCalls > 0 => written = received

\* stdin was ended by a handler that wrote the tail of the queue, after
\* three or more chunks went through it
C1_Witness ==
  /\ endCalls = 1
  /\ Len(written) >= 3
  /\ writes # <<>>
  /\ isStreamEnded

\* C2: whenever generateAudio resolves, the returned buffer is the
\* concatenation, in arrival order, of every chunk the source delivered,
\* with or without playback.
C2_ReturnsAllChunksInOrder ==
  genpc = "resolved" =>
    /\ genResult.kind = "buffer"
    /\ genResult.buffer = BufferConcat(received)
    /\ pipeline = "done"

\* a playback call returned a buffer of three or more chunks
C2_Witness ==
  /\ genpc = "resolved"
  /\ playAudio
  /\ Len(received) >= 3
  /\ genResult.buffer.length = SumLen(received)

\* C3 (as stated): with playback, generateAudio resolves only after the
\* source ended and the player closed with a success status, and never
\* while chunks are still queued or unwritten.
C3_ResolvesOnlyWhenAllWritten ==
  (playAudio /\ genpc = "resolved") =>
    /\ pipeline = "done"
    /\ ffplayProcess = "closed"
    /\ CloseResult(exitCode) = "resolved"
    /\ buffer = <<>>
    /\ written = received

\* C3 (amended): with playback, generateAudio resolves only after the
\* source ended and the player closed with code 0 or null; it never resolves
\* while the player is running, and chunks are left queued or unwritten only
\* when the player exited before stdin.end() was invoked.
C3_ResolvesOnlyAfterEndAndClose ==
  (playAudio /\ genpc = "resolved") =>
    /\ pipeline = "done"
    /\ isStreamEnded
    /\ ffplayProcess = "closed"
    /\ CloseResult(exitCode) = "resolved"
    /\ endCalls > 0 => (buffer = <<>> /\ written = received)

\* a playback call resolved after the player took every chunk and closed
C3_Witness ==
  /\ playAudio
  /\ genpc = "resolved"
  /\ endCalls = 1
  /\ Len(written) >= 2
  /\ exitCode = "0"

\* C4: when the source errors during a playback call, generateAudio rejects
\* with the source error and returns no buffer, and kill('SIGTERM') is
\* invoked on the subprocess handle exactly once (the signal reaches the
\* process when it is still running).
C4_SourceErrorKillsOnceAndRejects ==
  /\ killCalls <= 1
  /\ (playAudio /\ pipeline = "failed") =>
       /\ genpc \in {"awaitPipeline", "rejected"}
       /\ genResult.kind # "buffer"
       /\ genpc = "rejected" =>
            genResult = [ kind |-> "error", error |-> "rejected:source" ]
       /\ ffplayProcess # "null" => killCalls = 1
       /\ (ffplayProcess = "running") => killed

\* the source failed after three chunks, the running player was signalled
\* and generateAudio rejected
C4_Witness ==
  /\ playAudio
  /\ pipeline = "failed"
  /\ Len(received) = 3
  /\ killed
  /\ killCalls = 1
  /\ genpc = "rejected"

\* C5: when the source was accumulated without error and the player closed
\* with a nonzero code, the playback promise is rejected and generateAudio
\* does not resolve and returns no buffer.
C5_PlaybackFailureNotSwallowed ==
  ( /\ playAudio
    /\ pipeline = "done"
    /\ ffplayProcess = "closed"
    /\ CloseResult(exitCode) # "resolved" ) =>
      /\ outcome \notin {"pending", "resolved"}
      /\ genpc \in {"awaitPipeline", "awaitPlayback", "rejected"}
      /\ genResult.kind # "buffer"
      /\ genpc = "rejected" => genResult = [ kind |-> "error", error |-> outcome ]

\* every chunk was accumulated and written, the player closed with code 1
\* and generateAudio rejected
C5_Witness ==
  /\ playAudio
  /\ pipeline = "done"
  /\ chunks = received
  /\ Len(received) >= 2
  /\ ffplayProcess = "closed"
  /\ exitCode = "1"
  /\ genpc = "rejected"
  /\ genResult.error = "rejected:exit"

\* C6: the promise of a session is settled at most once, by the first
\* terminal event delivered (source 'error', subprocess 'error', subprocess
\* 'close'); later terminal events leave the outcome as it is.
C6_SettledOnceByFirstTerminalEvent ==
  /\ settleCalls <= 1
  /\ resolved <=> (settleCalls = 1)
  /\ CASE firstTerminal = "none" -> outcome = "pending" /\ settleCalls = 0
       [] firstTerminal = "sourceError" -> outcome = "rejected:source"
       [] firstTerminal = "procError" -> outcome = "rejected:spawn"
       [] firstTerminal = "spawnThrow" -> outcome = "rejected:spawn"
       [] firstTerminal = "close" -> outcome = CloseResult(exitCode)

\* three terminal events were delivered to one session: subprocess 'error',
\* source 'error', subprocess 'close'
C6_Witness ==
  /\ firstTerminal = "procError"
  /\ pipeline = "failed"
  /\ ffplayProcess = "closed"
  /\ settleCalls = 1

\* C7: once the source 'end' event has been handled, isPaused is false and
\* no later write sets it, whatever the queue length or the buffered bytes.
C7_NoPauseAfterEnd ==
  isStreamEnded =>
    /\ ~isPaused
    /\ \A i \in 1 .. Len(writes) : writes[i].ended /\ ~writes[i].pauseSet

\* with the source ended, one handler run wrote two or more chunks, left
\* fewer bytes than minBufferSize in a short queue and ended stdin
C7_Witness ==
  /\ isStreamEnded
  /\ ~isPaused
  /\ Len(writes) >= 2
  /\ drainListeners = 0
  /\ endCalls = 1
  /\ \E i \in 1 .. Len(writes) :
       writes[i].total < minBufferSize /\ writes[i].queued < minQueueSlack

\* C8: stdin.end() is invoked at most once, and only with the source ended
\* and the queue empty; when the source has ended and stdin stays open,
\* with every saturated write followed by a drain event, stdin.end() ends
\* up invoked exactly once.
C8_StdinEndedExactlyOnce ==
  /\ [](endCalls <= 1)
  /\ [][endCalls' # endCalls => (isStreamEnded' /\ buffer' = <<>>)]_vars
  /\ (isStreamEnded /\ ~stdinDestroyed) ~> (endCalls = 1 \/ stdinDestroyed)

\* stdin was ended once, with stdin still open, after the queue was flushed
C8_Witness ==
  /\ endCalls = 1
  /\ isStreamEnded
  /\ ~stdinDestroyed
  /\ buffer = <<>>
  /\ Len(written) >= 2
  /\ ~isWriting

\* the bytes queued once the chunk of this step (if any) is enqueued
EnqueuedTotal ==
  totalBuffered +
    (IF received' # received THEN received'[Len(received')].len ELSE 0)

\* C9: a paused session whose source has not ended resumes, or writes to
\* the sink, only in a step where a chunk arrives and brings totalBuffered
\* to bufferSize (512 KiB) or more; below that no data, drain or timer event
\* resumes flow or writes.
C9_ResumeOnlyAtHighWatermark ==
  [][ (isPaused /\ ~isStreamEnded' /\ (~isPaused' \/ written' # written))
        => (received' # received /\ EnqueuedTotal >= bufferSize) ]_vars

\* a paused session holds more than minBufferSize and less than bufferSize,
\* after the timer fired, and has not resumed
C9_Witness ==
  /\ isPaused
  /\ ~isStreamEnded
  /\ ~timerPending
  /\ totalBuffered > minBufferSize
  /\ totalBuffered < bufferSize
  /\ ~stdinDestroyed

\* C10 (as stated): a write that takes totalBuffered below minBufferSize
\* while fewer than 10 chunks remain queued does not pause flow.
C10_NoPauseWithShortQueue ==
  \A i \in 1 .. Len(writes) :
    (writes[i].couldWrite /\ writes[i].total < minBufferSize
       /\ writes[i].queued < minQueueSlack) => ~writes[i].pauseSet

\* C10 (amended): a write that takes totalBuffered below minBufferSize while
\* 10 or more chunks remain queued does not pause flow.
C10_NoPauseWithLongQueue ==
  \A i \in 1 .. Len(writes) :
    (writes[i].couldWrite /\ writes[i].total < minBufferSize
       /\ writes[i].queued >= minQueueSlack) =>
         /\ ~writes[i].pauseSet
         /\ (i = Len(writes) => (~isPaused \/ writes[i].pausedAtWrite))

\* a write before the source ended left 10 chunks and less than
\* minBufferSize queued
C10_Witness ==
  \E i \in 1 .. Len(writes) :
    /\ writes[i].couldWrite
    /\ ~writes[i].ended
    /\ writes[i].total < minBufferSize
    /\ writes[i].queued >= minQueueSlack

\* a playback session whose source has delivered at most one chunk, smaller
\* than bufferSize
SingleSmallChunk ==
  /\ Listening
  /\ Len(received) <= 1
  /\ received # <<>> => received[1].len < bufferSize

\* C11 (as stated): with a single chunk smaller than bufferSize the session
\* is never paused, the chunk is written in one write and the accumulated
\* buffer has the length of the chunk.
C11_SingleChunkNeverPaused ==
  SingleSmallChunk =>
    /\ ~isPaused
    /\ genpc = "resolved" => genResult.buffer.length = SumLen(received)

\* C11 (amended): with a single chunk smaller than bufferSize the session
\* starts flowing, the chunk is written in one write on arrival while
\* flowing (unless stdin is already destroyed), the session is paused only
\* after that write, with an empty queue and until the source ends, and the
\* accumulated buffer has the length of the chunk.
C11_SingleChunkWrittenWhileFlowing ==
  SingleSmallChunk =>
    /\ received = <<>> => (~isPaused /\ written = <<>>)
    /\ Len(received) = 1 =>
         \/ written = received /\ buffer = <<>> /\ totalBuffered = 0
         \/ written = <<>> /\ buffer = received /\ stdinDestroyed /\ ~isPaused
    /\ \A i \in 1 .. Len(writes) : ~writes[i].pausedAtWrite
    /\ isPaused => (written = received /\ buffer = <<>> /\ ~isStreamEnded)
    /\ genpc = "resolved" =>
         /\ genResult.buffer.length = SumLen(received)
         /\ chunks = received

\* the single chunk was written on arrival, the source ended and
\* generateAudio returned a buffer of the chunk's length
C11_Witness ==
  /\ SingleSmallChunk
  /\ Len(received) = 1
  /\ written = received
  /\ isStreamEnded
  /\ genpc = "resolved"
  /\ genResult.buffer.length = 1024 * 300

\* C12: with playAudio = false no subprocess is spawned and no session
\* state is created or touched; generateAudio returns the accumulated bytes
\* as soon as the pipeline completes, without waiting for any playback.
C12_NoPlaybackNoSession ==
  ~playAudio =>
    /\ ffplayProcess = "null" /\ exitCode = "none"
    /\ ~timerPending /\ killCalls = 0 /\ ~stdinDestroyed
    /\ written = <<>> /\ endCalls = 0 /\ drainListeners = 0
    /\ buffer = <<>> /\ totalBuffered = 0
    /\ ~isPaused /\ ~isStreamEnded /\ ~isWriting
    /\ outcome = "pending" /\ settleCalls = 0 /\ ~resolved
    /\ genpc # "awaitPlayback"
    /\ genpc = "resolved" =>
         (pipeline = "done" /\ genResult.buffer = BufferConcat(received))
    /\ genpc = "rejected" => pipeline = "failed"

\* a call without playback returned three chunks or more
C12_Witness ==
  /\ ~playAudio
  /\ genpc = "resolved"
  /\ Len(received) >= 3
  /\ genResult.buffer.parts = received

\* the subprocess could not be launched (spawn threw, or 'error' was emitted)
SpawnFailed == firstTerminal \in {"procError", "spawnThrow"}

C14_CloseCodeClassification ==
  firstTerminal = "close" =>
    /\ ffplayProcess = "closed"
    /\ exitCode \in {"0", "null"} => (outcome = "resolved" /\ rejectCode = "none")
    /\ exitCode \notin {"0", "null"} =>
         (outcome = "rejected:exit" /\ rejectCode = exitCode)

\* a player that took at least one chunk exited with the null code and its
\* 'close' resolved the session
C14_Witness ==
  /\ firstTerminal = "close"
  /\ exitCode = "null"
  /\ outcome = "resolved"
  /\ written # <<>>

\* C15: under fairness every playback-requested generateAudio call ends up
\* resolved or rejected, and a paused session with a non-empty queue ends up
\* with the queue flushed, unless stdin is destroyed or the source fails.
C15_EveryCallSettles ==
  /\ playAudio => <>(genpc \in {"resolved", "rejected"})
  /\ (isPaused /\ buffer # <<>>) ~>
       (buffer = <<>> \/ stdinDestroyed \/ pipeline = "failed")

\* a call with playback resolved: the source ended after two chunks, both
\* were written, stdin was ended and the player closed
C15_Witness ==
  /\ playAudio
  /\ genpc = "resolved"
  /\ outcome = "resolved"
  /\ isStreamEnded
  /\ Len(received) = 2
  /\ written = received
  /\ buffer = <<>>
  /\ endCalls = 1
  /\ ffplayProcess = "closed"

\* C17: cleanup invoked a second time, or after the player exited, sends no
\* signal to a process already killed or already gone, and produces no
\* further exit or outcome event.
C17_TeardownIdempotent ==
  /\ [](settleCalls <= 1)
  /\ [][ /\ killed => (killed' /\ killCalls' = killCalls)
         /\ ffplayProcess \in {"exited", "closed"} =>
              /\ killed' = killed
              /\ exitCode' = exitCode
              /\ ffplayProcess' \in {"exited", "closed"}
         /\ (killCalls' # killCalls /\ pipeline' = pipeline) =>
              UNCHANGED << outcome, settleCalls, resolved, ffplayProcess,
                           exitCode, stdinDestroyed >> ]_vars

\* cleanup ran twice on a player that had exited with code 0 and closed:
\* kill() was attempted twice, nothing was signalled, the outcome stayed
C17_Witness ==
  /\ killCalls = 2
  /\ ~killed
  /\ ffplayProcess = "closed"
  /\ exitCode = "0"
  /\ outcome = "resolved"
  /\ settleCalls = 1

\* C18: in generateAudio with playAudio = true nothing is handed to the
\* player until the whole source stream has been received and accumulated.
C18_NothingPlayedBeforeFullyBuffered ==
  (playAudio /\ written # <<>>) => (pipeline = "done" /\ chunks = received)

\* C19: playAudio(buffer) writes the whole buffer and ends stdin; its
\* promise is resolved exactly when the player has closed with code 0, and
\* a spawn error or a close with any other code, null included, rejects it.
C19_PlayAudioResolvesOnZeroOnly ==
  /\ ffplayProcess # "null" =>
       (written = genResult.buffer.parts /\ written = received /\ endCalls = 1)
  /\ outcome = "resolved" <=> (ffplayProcess = "closed" /\ exitCode = "0")
  /\ firstTerminal \in {"procError", "spawnThrow"} => outcome = "rejected:spawn"
  /\ (ffplayProcess = "closed" /\ exitCode # "0") =>
       /\ outcome \in {"rejected:exit", "rejected:spawn"}
       /\ firstTerminal = "close" =>
            (outcome = "rejected:exit" /\ rejectCode = exitCode)

\* playAudio wrote a buffer of two chunks or more, the player closed with
\* the null code and the promise was rejected
C19_Witness ==
  /\ ~playAudio
  /\ Len(written) >= 2
  /\ endCalls = 1
  /\ ffplayProcess = "closed"
  /\ exitCode = "null"
  /\ outcome = "rejected:exit"

\* C20: the pause flag is set only in the drain loop, right after a write
\* that did not report saturation, and exactly when after that write
\* totalBuffered < minBufferSize and the source has not ended and fewer than
\* 10 chunks are queued; a step in which the session becomes paused ends
\* with such a write.
C20_PauseOnlyAtLowWatermarkInLoop ==
  /\ [](\A i \in 1 .. Len(writes) :
          writes[i].pauseSet <=>
            /\ writes[i].couldWrite
            /\ writes[i].total < minBufferSize
            /\ ~writes[i].ended
            /\ writes[i].queued < minQueueSlack)
  /\ [][ (~isPaused /\ isPaused') =>
           /\ writes' # <<>>
           /\ writes'[Len(writes')].pauseSet
           /\ buffer' = <<>> \/ Len(written') > Len(written) ]_vars

\* one run of the loop wrote a chunk with 10 chunks queued behind it, then
\* one with a short queue holding 128 KiB or more, neither pausing, and
\* paused after its last write
C20_Witness ==
  /\ isPaused
  /\ Len(writes) >= 3
  /\ writes[Len(writes)].pauseSet
  /\ \E i \in 1 .. Len(writes) :
       /\ writes[i].couldWrite /\ ~writes[i].ended /\ ~writes[i].pauseSet
       /\ writes[i].queued >= minQueueSlack
  /\ \E i \in 1 .. Len(writes) :
       /\ writes[i].couldWrite /\ ~writes[i].ended /\ ~writes[i].pauseSet
       /\ writes[i].queued < minQueueSlack
       /\ writes[i].total >= minBufferSize

\* C16: two overlapping calls with playback each have their own queue,
\* byte counter, flags and subprocess; under every interleaving of their
\* events each sink receives that call's own source chunks in order (all of
\* them once its stdin is ended), and an event of one call leaves the whole
\* state of the other call unchanged.
C16_SessionsIsolated ==
  /\ [](/\ IsPrefix(written, received)
        /\ IsPrefix(other.written, other.received)
        /\ \A i \in 1 .. Len(received) : received[i].len \in OverlapSizes
        /\ \A i \in 1 .. Len(other.received) :
             other.received[i].len \notin OverlapSizes
        /\ endCalls > 0 => written = received
        /\ other.endCalls > 0 => other.written = other.received)
  /\ [][active' = active => other' = other]_vars
  /\ [][active' # active => (other' = Current /\ Current' = other)]_vars

\* the second call's source ended, and its stdin was ended with nothing
\* written, while the first call was paused with one of its chunks queued
C16_Witness ==
  /\ active = 2
  /\ isStreamEnded /\ endCalls = 1
  /\ written = <<>> /\ received = <<>>
  /\ other.isPaused
  /\ Len(other.buffer) = 1
  /\ Len(other.written) = 1
  /\ other.ffplayProcess = "running"

\* C21: between handlers totalBuffered is the sum of the lengths of the
\* queued chunks (0 exactly when the queue is empty, never negative); a
\* step changes it by the bytes it enqueued minus the bytes it dequeued and
\* handed to stdin.write, and a listening session's queue is what it
\* received and has not written yet.
C21_TotalBufferedIsQueueSum ==
  /\ [](/\ totalBuffered = SumLen(buffer)
        /\ totalBuffered >= 0
        /\ totalBuffered = 0 <=> buffer = <<>>
        /\ Listening => written \o buffer = received
        /\ ~Listening => (buffer = <<>> /\ written = <<>>))
  /\ [][ /\ totalBuffered' - totalBuffered =
              (IF Listening THEN SumLen(received') - SumLen(received) ELSE 0)
              - (SumLen(written') - SumLen(written))
         /\ totalBuffered' > totalBuffered => Len(received') > Len(received)
         /\ totalBuffered' < totalBuffered => Len(written') > Len(written)
       ]_vars

\* after a saturated write two chunks are queued behind the chunk written
C21_Witness ==
  /\ drainListeners = 1
  /\ written # <<>>
  /\ Len(buffer) = 2
  /\ totalBuffered = buffer[1].len + buffer[2].len
  /\ buffer[1].len # buffer[2].len

\* C22: while a drain listener is pending after a saturated write, the
\* writing flag stays set, one listener is pending, and only the drain
\* event writes: it continues from the head of the queue, so the chunk of
\* the saturated write is not written again.
C22_SuspendedUntilDrain ==
  /\ [](/\ drainListeners \in {0, 1}
        /\ drainListeners = 1 => (isWriting /\ written # <<>>)
        /\ \A i, j \in 1 .. Len(written) :
             written[i].id = written[j].id => i = j)
  /\ [][ /\ (drainListeners = 1 /\ written' # written) =>
              (Drain /\ written'[Len(written) + 1] = Head(buffer))
         /\ (drainListeners = 1 /\ ~Drain) =>
              (drainListeners' = 1 /\ isWriting' /\ endCalls' = endCalls)
         /\ (drainListeners = 0 /\ drainListeners' = 1) =>
              (~writes'[Len(writes')].couldWrite
                 /\ written'[Len(written')] = writes'[Len(writes')].chunk)
       ]_vars

\* a data event and the end event ran while a drain listener was pending:
\* the chunk was only queued and stdin was not ended
C22_Witness ==
  /\ drainListeners = 1
  /\ isWriting
  /\ ~stdinDestroyed
  /\ isStreamEnded
  /\ endCalls = 0
  /\ ~timerPending
  /\ Len(written) = 1
  /\ Len(buffer) = 2

\* C23: every stdin.write is made with isPaused = false; a handler that
\* finds the session paused and does not resume it, the drain and the timer
\* callbacks included, writes nothing.
C23_NoWriteWhilePaused ==
  /\ [](\A i \in 1 .. Len(writes) : ~writes[i].pausedAtWrite)
  /\ [][ /\ written' # written =>
              written' = written \o [i \in 1 .. Len(writes') |-> writes'[i].chunk]
         /\ (isPaused /\ (Timer \/ Drain)) => written' = written
         /\ (isPaused /\ written' # written) =>
              \/ isStreamEnded' /\ ~isStreamEnded
              \/ Len(received') > Len(received) /\ EnqueuedTotal >= bufferSize
       ]_vars

\* the start timer fired on a paused session with a chunk queued and wrote
\* nothing
C23_Witness ==
  /\ isPaused
  /\ ~timerPending
  /\ Len(written) = 1
  /\ Len(buffer) = 2
  /\ writes = <<>>
  /\ ~isWriting
  /\ drainListeners = 0
  /\ ~stdinDestroyed
  /\ ~isStreamEnded

\* C24: an error on the player's stdin settles nothing and kills nothing:
\* while the player runs with its stdin broken and the source has not
\* failed, the session is unsettled and unkilled, and the 'close' event
\* that follows decides the outcome by the exit code alone.
C24_StdinErrorAbsorbed ==
  /\ []((ffplayProcess = "running" /\ stdinDestroyed /\ pipeline # "failed")
          => (outcome = "pending" /\ ~resolved /\ ~killed /\ killCalls = 0))
  /\ [][ /\ StdinError =>
              UNCHANGED << outcome, resolved, settleCalls, firstTerminal,
                           killed, killCalls, ffplayProcess, exitCode,
                           genpc, genResult >>
         /\ (ProcClose /\ ~resolved) => outcome' = CloseResult(exitCode)
       ]_vars

\* the stdin of a running player broke after a write, with a chunk still
\* queued: nothing was settled or killed
C24_Witness ==
  /\ ffplayProcess = "running"
  /\ stdinDestroyed
  /\ written # <<>>
  /\ buffer # <<>>
  /\ outcome = "pending"
  /\ ~killed
  /\ pipeline = "running"

\* C25: once the player's stdin is destroyed, no handler writes to it or
\* ends it, whatever is queued or arrives; the session is still settled by
\* the 'close' event from the exit code.
C25_DestroyedStdinTolerated ==
  /\ [][ /\ stdinDestroyed => (written' = written /\ endCalls' = endCalls)
         /\ (stdinDestroyed /\ received' # received /\ Listening) =>
              (buffer' = Append(buffer, received'[Len(received')])
                 /\ writes' = <<>>)
         /\ (stdinDestroyed /\ ProcClose /\ ~resolved) =>
              (outcome' = CloseResult(exitCode) /\ settleCalls' = 1)
       ]_vars
  /\ []((stdinDestroyed /\ endCalls = 0) => written \o buffer = received)

\* the player exited with code 0 before the source ended: the chunks that
\* arrived afterwards and the end event wrote nothing and did not end
\* stdin, and the session resolved
C25_Witness ==
  /\ stdinDestroyed
  /\ ffplayProcess = "closed"
  /\ exitCode = "0"
  /\ outcome = "resolved"
  /\ isStreamEnded
  /\ endCalls = 0
  /\ Len(written) = 1
  /\ Len(buffer) = 2
  /\ ~timerPending

\* C26: once the player has closed with a nonzero code while the source is
\* still delivering, generateAudio has rejected before the source delivers
\* its next chunk or its end.
C26_PlayerFailureSurfacesAtOnce ==
  [][ ( /\ playAudio
        /\ outcome = "rejected:exit"
        /\ pipeline = "running"
        /\ (received' # received \/ pipeline' = "done") )
      => genpc = "rejected" ]_vars

\* C27: the source's 'error' handler invokes kill on the subprocess handle
\* unless it was already killed, whether or not the session is settled; it
\* rejects an unsettled session with the source's error and leaves a
\* settled one as it is.
C27_SourceErrorKillsAndRejects ==
  [][ (SourceError /\ Listening) =>
        /\ ~killed => (killCalls' = killCalls + 1
                         /\ killed' = (ffplayProcess = "running"))
        /\ killed => (killCalls' = killCalls /\ killed')
        /\ ~resolved => ( /\ outcome' = "rejected:source"
                          /\ resolved'
                          /\ settleCalls' = settleCalls + 1 )
        /\ resolved => UNCHANGED << outcome, resolved, settleCalls >>
        /\ UNCHANGED << ffplayProcess, exitCode, written, endCalls >>
    ]_vars

\* the source failed after the player had closed with code 0 and cleanup
\* had already run twice: kill was attempted once more and the outcome
\* stayed resolved
C27_Witness ==
  /\ pipeline = "failed"
  /\ outcome = "resolved"
  /\ firstTerminal = "close"
  /\ ffplayProcess = "closed"
  /\ killCalls = MaxCleanups + 1
  /\ ~killed
  /\ written # <<>>

\* the chunks whose call is in the given state
CallsIn(state) == { k \in 1 .. mcp.chunksLength : mcp.callState[k] = state }

\* C28: generateChunkedAudio issues the calls one at a time in index order:
\* at most one call is unsettled, every chunk before it has settled, and
\* no later chunk has been started.
C28_ChunksStrictlySequential ==
  /\ Cardinality(CallsIn("active")) <= 1
  /\ \A k \in 1 .. mcp.chunksLength :
       /\ mcp.callState[k] # "idle" =>
            \A j \in 1 .. k - 1 : mcp.callState[j] \in {"resolved", "rejected"}
       /\ mcp.callState[k] = "active" =>
            (mcp.i = k /\ mcp.chunkedPc = "awaitCall")

\* the third chunk's call is pending after the first resolved and the
\* second rejected
C28_Witness ==
  /\ mcp.chunksLength = 4
  /\ mcp.callState = << "resolved", "rejected", "active", "idle" >>

\* audioBuffer.length summed over the chunks 1 .. k whose call resolved
RECURSIVE ResolvedBytes(_)
ResolvedBytes(k) ==
  IF k = 0 THEN 0
  ELSE (IF mcp.callState[k] = "resolved" THEN mcp.callBytes[k] ELSE 0)
       + ResolvedBytes(k - 1)

\* C29: a failed chunk is recorded and the loop goes on while the failures
\* do not exceed half of the chunks; when they do, the call throws 'Too
\* many chunk failures' and starts no further chunk; otherwise it returns
\* after every chunk with successful = chunks - failed and the byte total
\* of the successful chunks.
C29_ChunkFailureTolerance ==
  /\ { mcp.errors[j] : j \in 1 .. Len(mcp.errors) } = CallsIn("rejected")
  /\ Len(mcp.errors) = Cardinality(CallsIn("rejected"))
  /\ mcp.chunkedPc \in {"awaitCall", "delay", "returned"} =>
       2 * Len(mcp.errors) <= mcp.chunksLength
  /\ mcp.chunkedPc = "thrown" =>
       /\ 2 * Len(mcp.errors) > mcp.chunksLength
       /\ 2 * (Len(mcp.errors) - 1) <= mcp.chunksLength
       /\ mcp.result.kind = "error"
       /\ mcp.result.message = "Too many chunk failures"
       /\ mcp.errors[Len(mcp.errors)] = mcp.i
       /\ \A k \in mcp.i + 1 .. mcp.chunksLength : mcp.callState[k] = "idle"
  /\ mcp.chunkedPc = "returned" =>
       /\ CallsIn("idle") = {} /\ CallsIn("active") = {}
       /\ mcp.result.kind = "completed"
       /\ mcp.result.chunks = mcp.chunksLength
       /\ mcp.result.successfulChunks = mcp.chunksLength - Len(mcp.errors)
       /\ mcp.result.successfulChunks = Cardinality(CallsIn("resolved"))
       /\ mcp.result.totalBytes = ResolvedBytes(mcp.chunksLength)

\* half of four chunks failed: the call went through all of them and
\* returned two successful chunks and their bytes
C29_Witness ==
  /\ mcp.chunkedPc = "returned"
  /\ mcp.chunksLength = 4
  /\ mcp.errors = << 2, 4 >>
  /\ mcp.result.successfulChunks = 2
  /\ mcp.result.totalBytes = 4000
  /\ mcp.callBytes = << 1000, 0, 3000, 0 >>

\* C30: while a voice list is cached and its expiry has not passed, even
\* with a validateVoiceId and a list_voices request in flight together, no
\* request calls the voices API, the cached list stays as it is, and every
\* request is answered from it.
C30_VoiceCacheServesOneList ==
  [][ (mcp.cachedVoices # "null" /\ mcp.clock <= mcp.voiceCacheExpiry) =>
        /\ mcp'.apiCalls = mcp.apiCalls
        /\ mcp'.cachedVoices = mcp.cachedVoices
        /\ Len(mcp'.answers) > Len(mcp.answers) =>
             mcp'.answers[Len(mcp'.answers)].list = mcp.cachedVoices
    ]_vars

\* C32: between handlers a session that is paused, its source not ended,
\* holds fewer than bufferSize bytes; a pause is entered below
\* minBufferSize.
C32_PausedBelowHighWatermark ==
  /\ [](isPaused => (~isStreamEnded /\ totalBuffered < bufferSize))
  /\ [][(~isPaused /\ isPaused') => totalBuffered' < minBufferSize]_vars

\* a paused session holds three chunks, 384 KiB or more, and its source
\* has not ended
C32_Witness ==
  /\ isPaused
  /\ ~isStreamEnded
  /\ pipeline = "running"
  /\ Len(buffer) = 3
  /\ totalBuffered >= 1024 * 384
  /\ totalBuffered < bufferSize

\* C33: once stdin.end() has been invoked no chunk is written any more; in
\* the step that invokes it the queue is left empty and every chunk
\* received has been written.
C33_NoWriteAfterEnd ==
  /\ [][endCalls > 0 => (written' = written /\ endCalls' = endCalls)]_vars
  /\ [](endCalls > 0 =>
          (buffer = <<>> /\ written = received /\ drainListeners = 0))

\* stdin was ended after three chunks were written, the player still runs
\* with its stdin open and the start timer has fired
C33_Witness ==
  /\ endCalls = 1
  /\ Len(written) = 3
  /\ ffplayProcess = "running"
  /\ ~stdinDestroyed
  /\ ~timerPending
  /\ writes = <<>>

\* C34: a generateAudio call that started playback settles only from its
\* await of the playback promise, whatever the pipeline and the player did
\* before, so a rejection of that promise is always observed.
C34_PlaybackPromiseAlwaysAwaited ==
  [][ ( /\ StartsPlayback
        /\ genpc \notin {"resolved", "rejected"}
        /\ genpc' \in {"resolved", "rejected"} )
      => genpc = "awaitPlayback" ]_vars

\* the words of the chunks, in order
RECURSIVE WordsOf(_)
WordsOf(textChunks) ==
  IF textChunks = <<>> THEN <<>>
  ELSE Split(Trim(Head(textChunks))) \o WordsOf(Tail(textChunks))

\* C31: every chunk chunkText returns has an estimated duration of at most
\* maxDurationSeconds, in the sentence mode and in the word mode.
C31_ChunksWithinDuration ==
  mcp.textChunked =>
    \A n \in 1 .. Len(mcp.textChunks) :
      estimateAudioDuration(mcp.textChunks[n]) <= 5 * mcp.maxDurationSeconds

\* C35: the words of the chunks chunkText returns, taken in order, are the
\* words of the text, in the sentence mode and in the word mode.
C35_ChunksKeepEveryWord ==
  mcp.textChunked => WordsOf(mcp.textChunks) = Split(Trim(mcp.text))

====
